---------------------------- MODULE Spec2Model ----------------------------
(***************************************************************************)
(* Model of the NotificationService component of the vehicle tracking app  *)
(* (src/app/(tabs)/Notifications.tsx, lines 34-317): the polling effect,   *)
(* the fetch of the latest ThingSpeak sample, the threshold checks with    *)
(* their per-channel cooldown, the local notification dispatch and the     *)
(* in-memory notification list.                                            *)
(*                                                                         *)
(* Time is in milliseconds, as returned by Date.now().  Sensor values and  *)
(* thresholds are whole numbers (20.0 is 20).  One step of the model is    *)
(* one run-to-completion task of the JavaScript event loop: a React        *)
(* commit, a timer callback, or the continuation of a settled promise.     *)
(***************************************************************************)
EXTENDS Integers, Sequences, FiniteSets, TLC

(***************************************************************************)
(* Bounds of the model.                                                    *)
(***************************************************************************)
\* fetches started over the whole run (one per poll cycle)
MaxCycles == 2
\* notifications on their way at one time: dispatched and not yet settled, or
\* presented and not yet given to the listener
MaxPending == 2
\* entries the notification list may hold in the model
MaxHistory == 2
\* cooldown windows the clock runs through
MaxWindows == 2

\* the cap of the notification list, scaled down from the design default of
\* 100 so that the list of the model can outgrow it
HistoryCap == MaxHistory - 1

(***************************************************************************)
(* Program constants.                                                      *)
(***************************************************************************)
\* const ALERT_COOLDOWN = 5 * 60 * 1000;
ALERT_COOLDOWN == 5 * 60 * 1000

\* useRef<number>(0): the initial value of lastField1Alert / lastField2Alert
NeverAlerted == 0

\* the literals the request url is built from
UrlChannel == "2899206"
UrlApiKey == "K5H4IGTGX5E20NMW"

Field1Title == "Vehicle Health Alert!"
Field2Title == "Possible Accident Detected!"

(***************************************************************************)
(* Props of NotificationService.  The component is rendered with one of    *)
(* these configurations; a re-render may switch to another one.            *)
(***************************************************************************)
DefaultProps ==
    [channelId |-> "2899206", readApiKey |-> "", pollingInterval |-> 10000,
     field1Threshold |-> 20, field2Threshold |-> 1, projectId |-> "none"]

Configs ==
    << DefaultProps,
       [DefaultProps EXCEPT !.projectId = "project-b"],
       [DefaultProps EXCEPT !.channelId = "1234567", !.readApiKey = "KEY2",
                            !.field1Threshold = 0, !.field2Threshold = 0] >>

ConfigIds == DOMAIN Configs

\* every instance starts a fetch when it is mounted
Instances == 1..MaxCycles

\* the instants at which tasks run: the epoch, and the first milliseconds of
\* every cooldown window after it
Instants ==
    {0} \cup UNION {{w * ALERT_COOLDOWN + e : e \in 0..w} : w \in 1..MaxWindows}

(***************************************************************************)
(* JSON values of data.field1 / data.field2 and the JavaScript operations  *)
(* applied to them.                                                        *)
(***************************************************************************)
JsUndefined == [kind |-> "undefined", val |-> 0]
JsNull == [kind |-> "null", val |-> 0]
JsEmptyString == [kind |-> "emptyString", val |-> 0]
JsText == [kind |-> "text", val |-> 0]
JsNumeral(v) == [kind |-> "numeral", val |-> v]
JsNumber(v) == [kind |-> "number", val |-> v]

\* the values a feed field takes in a polled sample
FieldValues == {JsNull, JsNumeral(1), JsNumeral(25)}

\* a test that takes a numeric string for the number it denotes, so that
\* "0" counts as absent
TruthyByValue(x) ==
    \/ x.kind = "text"
    \/ x.kind \in {"numeral", "number"} /\ x.val # 0

\* ToBoolean: what `data.field1 && ...` tests
Truthy(x) ==
    CASE x.kind = "undefined" -> FALSE
      [] x.kind = "null" -> FALSE
      [] x.kind = "emptyString" -> FALSE
      [] x.kind = "text" -> TRUE
      [] x.kind = "numeral" -> TRUE
      [] x.kind = "number" -> x.val # 0

\* parseFloat: a number, or NaN
ParseFloat(x) ==
    IF x.kind \in {"numeral", "number"}
    THEN [nan |-> FALSE, val |-> x.val]
    ELSE [nan |-> TRUE, val |-> 0]

\* a comparison for field2 that leaves out equality
StrictlyGreater(f, t) == ~f.nan /\ f.val > t

\* f > t and f >= t on numbers; every comparison with NaN is false
JsGreater(f, t) == ~f.nan /\ f.val > t
JsGreaterEq(f, t) == ~f.nan /\ f.val >= t

RemoveAt(s, i) == [k \in 1..(Len(s) - 1) |-> IF k < i THEN s[k] ELSE s[k + 1]]

(***************************************************************************)
(* State.                                                                  *)
(***************************************************************************)
VARIABLES
    clock,              \* Date.now()
    cycles,             \* how many fetches have been started
    inst,               \* the component instance mounted last (0: none yet)
    mounted,            \* whether that instance is mounted
    props,              \* the configuration it was rendered with last
    lastField1Alert,    \* lastField1Alert.current, per instance
    lastField2Alert,    \* lastField2Alert.current, per instance
    pollingIntervalRef, \* pollingIntervalRef.current of the instance
    timers,             \* the live setInterval timers
    nextTimerId,        \* the id the next setInterval returns
    inflight,           \* axios.get requests awaiting their response
    dispatching,        \* pending scheduleNotificationAsync promises
    received,           \* presented notifications not yet given to the listener
    notifications,      \* the notifications state of the instance
    gateLog             \* history variable: the checkAndSendNotifications calls so far

vars ==
    << clock, cycles, inst, mounted, props, lastField1Alert, lastField2Alert,
       pollingIntervalRef, timers, nextTimerId, inflight, dispatching, received,
       notifications, gateLog >>


(***************************************************************************)
(* Helpers of the operations.                                              *)
(***************************************************************************)
\* the request fetchLatestSensorData issues; inst and cfg are the closure it runs in
Request(i, c) ==
    [inst |-> i, cfg |-> c, channel |-> UrlChannel, api_key |-> UrlApiKey]

\* setInterval(() => fetchLatestSensorData(), pollingInterval)
NewTimer(i, c) == [id |-> nextTimerId, inst |-> i, cfg |-> c]

\* if (pollingIntervalRef.current) clearInterval(pollingIntervalRef.current)
\* a cleanup that leaves the timer running
ClearIntervalNever(ts, id) == ts

ClearInterval(ts, id) == {t \in ts : t.id # id}

\* data.field1 && parseFloat(data.field1) > field1Threshold
Field1Exceeded(data, c) ==
    Truthy(data.field1) /\ JsGreater(ParseFloat(data.field1), Configs[c].field1Threshold)

\* data.field2 && parseFloat(data.field2) >= field2Threshold
Field2Exceeded(data, c) ==
    Truthy(data.field2) /\ JsGreaterEq(ParseFloat(data.field2), Configs[c].field2Threshold)

\* variant: the comparison is >= instead of >
CooldownElapsedAtBoundary(now, last) == now - last >= ALERT_COOLDOWN

\* now - lastField1Alert.current > ALERT_COOLDOWN
CooldownElapsed(now, last) == now - last > ALERT_COOLDOWN

\* the two admission decisions of one checkAndSendNotifications call
Field1Admitted(data, r) ==
    Field1Exceeded(data, r.cfg) /\ CooldownElapsed(clock, lastField1Alert[r.inst])

\* a gate with one cooldown shared by the two channels
Field2AdmittedSharedCooldown(data, r) ==
    Field2Exceeded(data, r.cfg) /\ CooldownElapsed(clock, lastField1Alert[r.inst])

Field2Admitted(data, r) ==
    Field2Exceeded(data, r.cfg) /\ CooldownElapsed(clock, lastField2Alert[r.inst])

\* what the gate did with a channel in one call (history variable)
Outcome(exceeded, admitted) ==
    IF ~exceeded THEN "none" ELSE IF admitted THEN "admitted" ELSE "suppressed"

\* where the value of a field lies relative to a threshold (history variable):
\* "absent" when it is no number and no numeric string
Position(x, t) ==
    IF x.kind \notin {"numeral", "number"} THEN "absent"
    ELSE IF x.val < t THEN "below"
    ELSE IF x.val = t THEN "equal"
    ELSE "above"

\* a reference that is written on every evaluated sample
RecordAlertAlways(ref, i, admitted) == [ref EXCEPT ![i] = clock]

\* lastField1Alert.current = now, done when the candidate is admitted
RecordAlert(ref, i, admitted) == IF admitted THEN [ref EXCEPT ![i] = clock] ELSE ref

\* the scheduleNotificationAsync call scheduleLocalNotification starts
Dispatch(i, title) == [inst |-> i, title |-> title]

\* setNotifications(prev => [newNotification, ...prev]); a state update of an
\* instance that is no longer mounted has no effect
Prepend(i, title, timestamp) ==
    IF mounted /\ inst = i
    THEN <<[title |-> title, timestamp |-> timestamp]>> \o notifications
    ELSE notifications

\* the dependencies of the two effects
MountDepsChanged(c) == Configs[c].projectId # Configs[props].projectId

PollingDepsChanged(c) ==
    \/ Configs[c].channelId # Configs[props].channelId
    \/ Configs[c].readApiKey # Configs[props].readApiKey
    \/ Configs[c].pollingInterval # Configs[props].pollingInterval
    \/ Configs[c].field1Threshold # Configs[props].field1Threshold
    \/ Configs[c].field2Threshold # Configs[props].field2Threshold

(***************************************************************************)
(* Initial state: the component has been mounted for the first time, both  *)
(* effects have run.                                                       *)
(***************************************************************************)
Init ==
    /\ clock = 0
    /\ cycles = 1
    /\ inst = 1
    /\ mounted = TRUE
    /\ props \in ConfigIds
    /\ lastField1Alert = [i \in Instances |-> NeverAlerted]
    /\ lastField2Alert = [i \in Instances |-> NeverAlerted]
    /\ pollingIntervalRef = 1
    /\ timers = {[id |-> 1, inst |-> 1, cfg |-> props]}
    /\ nextTimerId = 2
    /\ inflight = <<Request(1, props)>>
    /\ dispatching = <<>>
    /\ received = <<>>
    /\ notifications = <<>>
    /\ gateLog = <<>>

(***************************************************************************)
(* Lifecycle of the component.                                             *)
(***************************************************************************)
\* a new instance is mounted: fresh state and refs, then both effects run
Mount(c) ==
    /\ ~mounted
    /\ cycles < MaxCycles
    /\ cycles' = cycles + 1
    /\ inst' = inst + 1
    /\ mounted' = TRUE
    /\ props' = c
    /\ notifications' = <<>>
    /\ inflight' = Append(inflight, Request(inst + 1, c))
    /\ timers' = timers \cup {NewTimer(inst + 1, c)}
    /\ pollingIntervalRef' = nextTimerId
    /\ nextTimerId' = nextTimerId + 1
    /\ UNCHANGED << clock, lastField1Alert, lastField2Alert, dispatching,
                    received, gateLog >>

\* the instance is unmounted: the cleanups of both effects run
Unmount ==
    /\ mounted
    /\ mounted' = FALSE
    /\ timers' = ClearInterval(ClearInterval(timers, pollingIntervalRef), pollingIntervalRef)
    /\ UNCHANGED << clock, cycles, inst, props, lastField1Alert, lastField2Alert,
                    pollingIntervalRef, nextTimerId, inflight, dispatching, received,
                    notifications, gateLog >>

\* the instance is re-rendered with other props: the cleanup of every effect
\* with a changed dependency runs, then the bodies of these effects
PropChange(c) ==
    /\ mounted
    /\ c # props
    /\ PollingDepsChanged(c) => cycles < MaxCycles
    /\ cycles' = IF PollingDepsChanged(c) THEN cycles + 1 ELSE cycles
    /\ props' = c
    /\ IF PollingDepsChanged(c)
       THEN /\ inflight' = Append(inflight, Request(inst, c))
            /\ timers' = ClearInterval(timers, pollingIntervalRef) \cup {NewTimer(inst, c)}
            /\ pollingIntervalRef' = nextTimerId
            /\ nextTimerId' = nextTimerId + 1
       ELSE /\ timers' = ClearInterval(timers, pollingIntervalRef)
            /\ UNCHANGED << inflight, pollingIntervalRef, nextTimerId >>
    /\ UNCHANGED << clock, inst, mounted, lastField1Alert, lastField2Alert,
                    dispatching, received, notifications, gateLog >>

(***************************************************************************)
(* The poll cycle.                                                         *)
(***************************************************************************)
\* the interval of timer t elapses: fetchLatestSensorData() runs up to its await
Tick(t) ==
    /\ t \in timers
    /\ cycles < MaxCycles
    /\ cycles' = cycles + 1
    /\ inflight' = Append(inflight, Request(t.inst, t.cfg))
    /\ UNCHANGED << clock, inst, mounted, props, lastField1Alert,
                    lastField2Alert, pollingIntervalRef, timers, nextTimerId,
                    dispatching, received, notifications, gateLog >>

\* variant: the rejection is handled by clearing the interval
FetchRejectedStopsPolling(k) ==
    /\ k \in DOMAIN inflight
    /\ inflight' = RemoveAt(inflight, k)
    /\ timers' = ClearInterval(timers, pollingIntervalRef)
    /\ UNCHANGED << clock, cycles, inst, mounted, props, lastField1Alert,
                    lastField2Alert, pollingIntervalRef, nextTimerId,
                    dispatching, received, notifications, gateLog >>

\* axios.get rejects (network failure, status outside 2xx): the catch logs it
FetchRejected(k) ==
    /\ k \in DOMAIN inflight
    /\ inflight' = RemoveAt(inflight, k)
    /\ UNCHANGED << clock, cycles, inst, mounted, props, lastField1Alert,
                    lastField2Alert, pollingIntervalRef, timers, nextTimerId,
                    dispatching, received, notifications, gateLog >>

\* the response has no data: `if (!data) return`
FetchNoData(k) ==
    /\ k \in DOMAIN inflight
    /\ inflight' = RemoveAt(inflight, k)
    /\ UNCHANGED << clock, cycles, inst, mounted, props, lastField1Alert,
                    lastField2Alert, pollingIntervalRef, timers, nextTimerId,
                    dispatching, received, notifications, gateLog >>

\* the response carries data: checkAndSendNotifications(data)
FetchData(k, data) ==
    /\ k \in DOMAIN inflight
    /\ LET r == inflight[k]
           a1 == Field1Admitted(data, r)
           a2 == Field2Admitted(data, r)
           sent == (IF a1 THEN <<Dispatch(r.inst, Field1Title)>> ELSE <<>>)
                   \o (IF a2 THEN <<Dispatch(r.inst, Field2Title)>> ELSE <<>>)
       IN /\ Len(dispatching) + Len(received) + Len(sent) <= MaxPending
          /\ lastField1Alert' = RecordAlert(lastField1Alert, r.inst, a1)
          /\ lastField2Alert' = RecordAlert(lastField2Alert, r.inst, a2)
          /\ dispatching' = dispatching \o sent
          /\ gateLog' =
                Append(gateLog,
                       [inst |-> r.inst, at |-> clock,
                        value1 |-> Position(data.field1, Configs[r.cfg].field1Threshold),
                        value2 |-> Position(data.field2, Configs[r.cfg].field2Threshold),
                        field1 |-> Outcome(Field1Exceeded(data, r.cfg), a1),
                        field2 |-> Outcome(Field2Exceeded(data, r.cfg), a2)])
    /\ inflight' = RemoveAt(inflight, k)
    /\ UNCHANGED << clock, cycles, inst, mounted, props, pollingIntervalRef, timers,
                    nextTimerId, received, notifications >>

(***************************************************************************)
(* Notification dispatch and the notification list.                        *)
(***************************************************************************)
\* scheduleNotificationAsync resolves: the notification is presented and
\* scheduleLocalNotification adds it to the list
DispatchResolved(j) ==
    /\ j \in DOMAIN dispatching
    /\ LET d == dispatching[j]
       IN /\ (mounted /\ inst = d.inst) => Len(notifications) < MaxHistory
          /\ notifications' = Prepend(d.inst, d.title, clock)
          /\ received' = Append(received, [title |-> d.title, date |-> clock])
    /\ dispatching' = RemoveAt(dispatching, j)
    /\ UNCHANGED << clock, cycles, inst, mounted, props, lastField1Alert,
                    lastField2Alert, pollingIntervalRef, timers, nextTimerId, inflight,
                    gateLog >>

\* scheduleNotificationAsync rejects: the catch of scheduleLocalNotification logs it
DispatchRejected(j) ==
    /\ j \in DOMAIN dispatching
    /\ dispatching' = RemoveAt(dispatching, j)
    /\ UNCHANGED << clock, cycles, inst, mounted, props, lastField1Alert,
                    lastField2Alert, pollingIntervalRef, timers, nextTimerId, inflight,
                    received, notifications, gateLog >>

\* the listener added by addNotificationReceivedListener is called
NotificationReceived(k) ==
    /\ k \in DOMAIN received
    /\ mounted
    /\ Len(notifications) < MaxHistory
    /\ notifications' = Prepend(inst, received[k].title, received[k].date)
    /\ received' = RemoveAt(received, k)
    /\ UNCHANGED << clock, cycles, inst, mounted, props, lastField1Alert,
                    lastField2Alert, pollingIntervalRef, timers, nextTimerId, inflight,
                    dispatching, gateLog >>

\* no listener is subscribed (removeNotificationSubscription): nothing is called
NotificationUnheard(k) ==
    /\ k \in DOMAIN received
    /\ ~mounted
    /\ received' = RemoveAt(received, k)
    /\ UNCHANGED << clock, cycles, inst, mounted, props, lastField1Alert,
                    lastField2Alert, pollingIntervalRef, timers, nextTimerId, inflight,
                    dispatching, notifications, gateLog >>

\* time passes
AdvanceClock(t) ==
    /\ t \in Instants
    /\ t > clock
    /\ clock' = t
    /\ UNCHANGED << cycles, inst, mounted, props, lastField1Alert, lastField2Alert,
                    pollingIntervalRef, timers, nextTimerId, inflight, dispatching,
                    received, notifications, gateLog >>

Next ==
    \/ \E c \in ConfigIds : Mount(c)
    \/ Unmount
    \/ \E c \in ConfigIds : PropChange(c)
    \/ \E t \in timers : Tick(t)
    \/ \E k \in 1..MaxCycles : FetchRejected(k)
    \/ \E k \in 1..MaxCycles : FetchNoData(k)
    \/ \E k \in 1..MaxCycles, f1, f2 \in FieldValues :
          FetchData(k, [field1 |-> f1, field2 |-> f2])
    \/ \E j \in 1..MaxPending : DispatchResolved(j)
    \/ \E j \in 1..MaxPending : DispatchRejected(j)
    \/ \E k \in 1..MaxPending : NotificationReceived(k)
    \/ \E k \in 1..MaxPending : NotificationUnheard(k)
    \/ \E t \in Instants : AdvanceClock(t)

Spec == Init /\ [][Next]_vars

(***************************************************************************)
(* Threshold evaluation on its own: the polling cycles of one mounted      *)
(* instance, with the field values of the feed drawn from a wider set:     *)
(* absent, null, empty and non-numeric strings, and numeric strings below, *)
(* at and above each configured threshold (0 included).  The feed carries  *)
(* its fields as strings (interface Feed), so JSON numbers are not drawn.  *)
(***************************************************************************)
EvalValues ==
    {JsUndefined, JsNull, JsEmptyString, JsText,
     JsNumeral(0 - 1), JsNumeral(0), JsNumeral(1), JsNumeral(20), JsNumeral(25)}

NextEval ==
    \/ \E t \in timers : Tick(t)
    \/ \E k \in 1..MaxCycles, f1, f2 \in EvalValues :
          FetchData(k, [field1 |-> f1, field2 |-> f2])
    \/ \E t \in Instants : AdvanceClock(t)

SpecEval == Init /\ [][NextEval]_vars

(***************************************************************************)
(* Properties.                                                             *)
(***************************************************************************)
Channels == {"field1", "field2"}

\* the earlier calls of the same instance that admitted channel ch
PriorAdmissions(b, ch) ==
    {a \in 1..(b - 1) : gateLog[a].inst = gateLog[b].inst /\ gateLog[a][ch] = "admitted"}

SetMax(S) == CHOOSE x \in S : \A y \in S : y <= x

\* C1: any two admissions of a channel are more than ALERT_COOLDOWN apart,
\* in every reachable state and whatever the order in which overlapping
\* fetches complete.
AdmissionsApart ==
    \A ch \in Channels : \A a, b \in DOMAIN gateLog :
        (a < b /\ gateLog[a][ch] = "admitted" /\ gateLog[b][ch] = "admitted") =>
            gateLog[b].at - gateLog[a].at > ALERT_COOLDOWN

\* The same for the admissions made through one pair of refs, those of one
\* component instance.
AdmissionsApartPerInstance ==
    \A ch \in Channels : \A b \in DOMAIN gateLog :
        gateLog[b][ch] = "admitted" =>
            \A a \in PriorAdmissions(b, ch) :
                gateLog[b].at - gateLog[a].at > ALERT_COOLDOWN

\* C2: a candidate of a channel whose cooldown state (the ref of the
\* instance) holds a last admission at T0 is admitted if and only if
\* now - T0 > ALERT_COOLDOWN; at exactly T0 + ALERT_COOLDOWN it is suppressed.
CooldownBoundary ==
    \A ch \in Channels : \A b \in DOMAIN gateLog :
        (gateLog[b][ch] # "none" /\ PriorAdmissions(b, ch) # {}) =>
            LET T0 == gateLog[SetMax(PriorAdmissions(b, ch))].at
            IN  gateLog[b][ch] = "admitted" <=> gateLog[b].at - T0 > ALERT_COOLDOWN

\* a candidate was suppressed exactly ALERT_COOLDOWN after the last admission
SuppressedAtBoundary ==
    \E ch \in Channels : \E b \in DOMAIN gateLog :
        /\ gateLog[b][ch] = "suppressed"
        /\ PriorAdmissions(b, ch) # {}
        /\ gateLog[b].at - gateLog[SetMax(PriorAdmissions(b, ch))].at = ALERT_COOLDOWN

\* C3: a candidate of a channel that had no admission yet is admitted
\* whatever the value of `now`.
FirstCandidateAdmitted ==
    \A ch \in Channels : \A b \in DOMAIN gateLog :
        (gateLog[b][ch] # "none" /\ PriorAdmissions(b, ch) = {}) =>
            gateLog[b][ch] = "admitted"

\* C4: once the component is unmounted, no cycle starts and no step writes a
\* cooldown timestamp, dispatches a notification or changes the list: the
\* response of a fetch that was in flight is discarded.
StopSafety ==
    [][(~mounted /\ ~mounted') =>
          /\ cycles' = cycles
          /\ lastField1Alert' = lastField1Alert
          /\ lastField2Alert' = lastField2Alert
          /\ Len(dispatching') <= Len(dispatching)
          /\ notifications' = notifications]_vars

\* C5: at most one fetch is in flight at any time.
NoOverlappingCycles == Len(inflight) <= 1

\* C6: when the dispatch of an admitted candidate settles, resolved or
\* rejected, its record is added to the list of the mounted instance.
HistoryAppendRegardless ==
    [][\A j \in DOMAIN dispatching :
          (/\ dispatching' = RemoveAt(dispatching, j)
           /\ mounted /\ inst = dispatching[j].inst) =>
              Len(notifications') = Len(notifications) + 1]_vars

\* C7: the list of a mounted instance changes only in the step that settles
\* the dispatch of an admitted candidate, which adds one record.
SingleMutationPoint ==
    [][(mounted /\ mounted' /\ notifications' # notifications) =>
          /\ \E j \in DOMAIN dispatching : dispatching' = RemoveAt(dispatching, j)
          /\ Len(notifications') = Len(notifications) + 1]_vars

\* C8: the list never holds more than HistoryCap entries.
HistoryBounded == Len(notifications) <= HistoryCap

\* C9: a cycle that fails (the fetch rejects or returns no data, or the
\* dispatch rejects) leaves the interval timer and the ref to it as they
\* were, so the timer goes on starting cycles.
CycleIsolation ==
    [][(\/ \E k \in DOMAIN inflight : FetchRejected(k) \/ FetchNoData(k)
        \/ \E j \in DOMAIN dispatching : DispatchRejected(j)) =>
          /\ timers' = timers
          /\ pollingIntervalRef' = pollingIntervalRef]_vars

\* the first cycle has failed (no call of the gate, nothing in flight) and
\* the timer the instance refers to is live
TimerLiveAfterFailure ==
    /\ cycles = 1
    /\ inflight = <<>>
    /\ gateLog = <<>>
    /\ \E t \in timers : t.id = pollingIntervalRef

\* C10: the scheduler is stopped only by unmounting: while the component is
\* mounted, the interval timer it refers to is live.
RunningWhileMounted ==
    mounted => \E t \in timers : t.id = pollingIntervalRef


\* the notifications the log says were sent, in the order of the calls and,
\* within a call, field1 before field2
RECURSIVE SentInOrder(_)
SentInOrder(log) ==
    IF log = <<>> THEN <<>>
    ELSE LET e == log[Len(log)]
         IN SentInOrder(SubSeq(log, 1, Len(log) - 1))
            \o (IF e.field1 = "admitted" THEN <<Dispatch(e.inst, Field1Title)>> ELSE <<>>)
            \o (IF e.field2 = "admitted" THEN <<Dispatch(e.inst, Field2Title)>> ELSE <<>>)

\* C11: an evaluation yields a candidate for a channel exactly when the
\* field holds a numeric value that satisfies the channel's comparator
\* (above the threshold for field1, at or above it for field2), and none
\* when the field is absent, null or not numeric.
EvaluationMatchesComparator ==
    \A b \in DOMAIN gateLog :
        /\ gateLog[b].field1 # "none" <=> gateLog[b].value1 = "above"
        /\ gateLog[b].field2 # "none" <=> gateLog[b].value2 \in {"equal", "above"}

\* with thresholds of 0, field2 "0" gave a candidate and a field1 that is
\* not numeric gave none
ZeroAtThresholdZero ==
    /\ Configs[props].field2Threshold = 0
    /\ \E b \in DOMAIN gateLog :
          /\ gateLog[b].value2 = "equal" /\ gateLog[b].field2 # "none"
          /\ gateLog[b].value1 = "absent" /\ gateLog[b].field1 = "none"

\* C12: a field1 value equal to its threshold yields no candidate, a field2
\* value equal to its threshold yields one, and when both channels are
\* admitted in one evaluation the field1 notification is sent first.
ComparatorAsymmetry ==
    /\ \A b \in DOMAIN gateLog :
          /\ gateLog[b].value1 = "equal" => gateLog[b].field1 = "none"
          /\ gateLog[b].value2 = "equal" => gateLog[b].field2 # "none"
    /\ dispatching = SentInOrder(gateLog)

\* one evaluation admitted both channels, another had both values at their
\* thresholds
BothEqualAndBothAdmitted ==
    /\ \E b \in DOMAIN gateLog :
          gateLog[b].field1 = "admitted" /\ gateLog[b].field2 = "admitted"
    /\ \E b \in DOMAIN gateLog :
          /\ gateLog[b].value1 = "equal" /\ gateLog[b].field1 = "none"
          /\ gateLog[b].value2 = "equal" /\ gateLog[b].field2 # "none"


\* the entry a step adds to the log of gate calls
Logged == gateLog'[Len(gateLog')]

\* C13: in every evaluation each channel is gated on its own reference only:
\* a candidate is admitted exactly when its own cooldown has elapsed,
\* whatever happens to the other channel in the same call, and a channel
\* that is not admitted keeps its reference; so a sample that crosses both
\* thresholds with both cooldowns elapsed is admitted twice.
ChannelIndependence ==
    [][Len(gateLog') > Len(gateLog) =>
         /\ Logged.field1 # "none" =>
               (Logged.field1 = "admitted"
                  <=> Logged.at - lastField1Alert[Logged.inst] > ALERT_COOLDOWN)
         /\ Logged.field2 # "none" =>
               (Logged.field2 = "admitted"
                  <=> Logged.at - lastField2Alert[Logged.inst] > ALERT_COOLDOWN)
         /\ Logged.field1 # "admitted" => lastField1Alert' = lastField1Alert
         /\ Logged.field2 # "admitted" => lastField2Alert' = lastField2Alert]_vars

\* a call suppressed the field1 candidate, inside the cooldown of an earlier
\* field1 admission, and admitted the field2 candidate of the same sample
SuppressedBesideAdmitted ==
    \E b, d \in DOMAIN gateLog :
        /\ b < d /\ gateLog[b].inst = gateLog[d].inst
        /\ gateLog[b].field1 = "admitted"
        /\ gateLog[d].field1 = "suppressed" /\ gateLog[d].field2 = "admitted"


\* C14: every request is for the last feed of the configured channelId and
\* carries the api_key parameter exactly when a non-empty readApiKey was
\* configured, with the configured key as its value ("" stands for a url
\* without the parameter).
RequestMatchesConfiguration ==
    \A k \in DOMAIN inflight :
        /\ inflight[k].channel = Configs[inflight[k].cfg].channelId
        /\ inflight[k].api_key = Configs[inflight[k].cfg].readApiKey


\* C15: the reference of a channel changes only in a step that admits a
\* candidate for that channel, and the admitting step sets it to that step's
\* now; every other step (a suppressed candidate, a sample that crosses no
\* threshold, a failed or empty fetch, a dispatch that resolves or rejects)
\* leaves every reference as it was.
ReferenceWrittenOnAdmissionOnly ==
    [][/\ \A i \in Instances :
            /\ lastField1Alert'[i] # lastField1Alert[i] =>
                  /\ Len(gateLog') > Len(gateLog)
                  /\ Logged.inst = i /\ Logged.field1 = "admitted"
            /\ lastField2Alert'[i] # lastField2Alert[i] =>
                  /\ Len(gateLog') > Len(gateLog)
                  /\ Logged.inst = i /\ Logged.field2 = "admitted"
       /\ Len(gateLog') > Len(gateLog) =>
            /\ Logged.field1 = "admitted" => lastField1Alert'[Logged.inst] = clock
            /\ Logged.field2 = "admitted" => lastField2Alert'[Logged.inst] = clock]_vars

\* field1 was admitted, its notification failed to dispatch, and a later
\* field1 candidate of the same instance was suppressed: the reference still
\* holds the instant of the admission
ReferenceKeptAfterSuppression ==
    \E b, d \in DOMAIN gateLog :
        /\ b < d /\ gateLog[b].inst = gateLog[d].inst
        /\ gateLog[b].field1 = "admitted" /\ gateLog[d].field1 = "suppressed"
        /\ gateLog[b].at < gateLog[d].at
        /\ lastField1Alert[gateLog[b].inst] = gateLog[b].at
        /\ dispatching = <<>> /\ received = <<>> /\ notifications = <<>>


\* C16: the cooldown state outlives a restart of the scheduler: the instance
\* mounted after a teardown starts with the references its predecessor had,
\* so that a candidate inside the cooldown window of an earlier admission is
\* suppressed.
CooldownSurvivesRestart ==
    [][inst' # inst =>
         /\ lastField1Alert'[inst'] = lastField1Alert[inst]
         /\ lastField2Alert'[inst'] = lastField2Alert[inst]]_vars

\* the part of C16 about re-runs of the polling effect: a change of
\* channelId, readApiKey, pollingInterval or a threshold leaves the
\* references of the mounted instance as they were
CooldownSurvivesEffectRerun ==
    [][inst' = inst /\ props' # props =>
         lastField1Alert' = lastField1Alert /\ lastField2Alert' = lastField2Alert]_vars


\* C17: the notification list is ordered most recent first: timestamps do
\* not increase from the head, in whatever order dispatches complete and the
\* listener is called.
HistoryMostRecentFirst ==
    \A k \in 1..(Len(notifications) - 1) :
        notifications[k].timestamp >= notifications[k + 1].timestamp


\* C18: at most one timer created by NotificationService is live, it is the
\* one pollingIntervalRef holds, and a step that creates a timer leaves no
\* earlier timer live.
SingleLiveTimer ==
    /\ Cardinality(timers) <= 1
    /\ \A t \in timers : t.id = pollingIntervalRef /\ t.id = nextTimerId - 1

\* the polling effect of the first instance has re-run: its second timer is
\* the live one
TimerReplacedOnRerun ==
    /\ mounted /\ inst = 1
    /\ \E t \in timers : t.id > 1 /\ t.inst = 1

=============================================================================
